---- MODULE Spec2Model ----
(***************************************************************************)
(* A model of tensorflow/python/client/session_benchmark.py: the two      *)
(* measurement methods SessionBenchmark._benchmarkFeed and                 *)
(* SessionBenchmark._benchmarkFetch, statement by statement, and the two   *)
(* suites benchmarkGrpcSession and benchmarkDirectSession, which call them *)
(* with their own arguments and run the same statements.                   *)
(*                                                                         *)
(* Time is counted in ticks of 1/TicksPerSecond seconds.  The median of    *)
(* whole-tick samples is a multiple of half a tick, so wall times are      *)
(* carried in half ticks; "%f" renders them as seconds and microseconds.   *)
(*                                                                         *)
(* The suites make up to 20000 timed executions in a call, so the lists    *)
(* that grow with the loop are kept run-length encoded: a list of numbers  *)
(* as <<value, count>> runs (times, svc), and the call log with the        *)
(* completed iterations of a loop folded into one counted entry.  Expand   *)
(* and LogExpand give the plain lists back.                                *)
(***************************************************************************)
EXTENDS Integers, Sequences, FiniteSets, TLC

VARIABLES
  python,      \* the major version of the interpreter running the file
  args,        \* the arguments of the running measurement call
  pc,          \* the statement the measurement call is at
  feed_val,    \* _benchmarkFeed's local feed_val
  times,       \* the local list times (run-length encoded)
  i,           \* iterations of the for loop completed so far
  start_time,  \* the local start_time
  end_time,    \* the local end_time
  now,         \* the wall clock time.time() reads, in ticks
  sessions,    \* every tf.Session the harness has opened, in order
  log,         \* the calls made on the framework, in order (loops folded)
  stdout,      \* the lines printed
  reported,    \* the records handed to report_benchmark
  ncall,       \* measurement calls started so far
  svc,         \* latencies the service showed in the running call (encoded)
  prevSvc,     \* latencies the service showed in the call before (encoded)
  suite,       \* the suite method running ("none": a bare measurement call)
  spc,         \* the statement of the suite about to run
  server       \* server.target once create_local_server has returned

vars == <<python, args, pc, feed_val, times, i, start_time, end_time, now,
          sessions, log, stdout, reported, ncall, svc, prevSvc, suite, spc,
          server>>

----------------------------------------------------------------------------
(* Bounds of the model *)

MaxIters == 3
MaxDelta == 1
MaxSize == 2
MaxPayload == 2
MaxTwiceIters == 2

Names == {"t", "u"}
Targets == {"", "grpc://localhost:1"}
ServerTargets == {"grpc://localhost:1", "grpc://localhost:2"}
Sizes == 0..MaxSize
Iters == 0..MaxIters
\* differences of two reads of time.time() across an execution, in ticks:
\* negative when the wall clock is set back in between
Deltas == (0 - 1)..MaxDelta

\* the suites are run against a service every execution of which takes one
\* tick: with thousands of timed executions in a case, a choice of latency
\* at each of them cannot be explored
SuiteDeltas == {1}

\* the interpreters the file may be run by
Pythons == {2, 3}

TicksPerSecond == 2^7

----------------------------------------------------------------------------
(* Run-length encoded lists *)

\* list.append(x)
RAppend(r, x) ==
  IF r # <<>> /\ r[Len(r)][1] = x
  THEN [r EXCEPT ![Len(r)] = <<x, @[2] + 1>>]
  ELSE Append(r, <<x, 1>>)

RECURSIVE RLen(_)
\* len(list)
RLen(r) == IF r = <<>> THEN 0 ELSE r[1][2] + RLen(Tail(r))

RECURSIVE Expand(_)
\* the plain list
Expand(r) ==
  IF r = <<>> THEN <<>>
  ELSE IF r[1][2] = 0 THEN Expand(Tail(r))
  ELSE <<r[1][1]>> \o Expand(<<<<r[1][1], r[1][2] - 1>>>> \o Tail(r))

RECURSIVE RAt(_, _)
\* list[k - 1]: the k-th element
RAt(r, k) == IF k <= r[1][2] THEN r[1][1] ELSE RAt(Tail(r), k - r[1][2])

RECURSIVE CountUpTo(_, _)
\* how many elements are <= x
CountUpTo(r, x) ==
  IF r = <<>> THEN 0
  ELSE (IF r[1][1] <= x THEN r[1][2] ELSE 0) + CountUpTo(Tail(r), x)

\* the k-th smallest element: what sorting would put at place k
KthSmallest(r, k) ==
  CHOOSE x \in {r[j][1] : j \in 1..Len(r)} :
    CountUpTo(r, x - 1) < k /\ k <= CountUpTo(r, x)

----------------------------------------------------------------------------
(* Pure helpers *)

\* np.random.rand(size).astype(np.float32): one of the vectors of that shape
RandomPayloads(size) ==
  IF size = 0 THEN {[shape |-> 0, data |-> 0]}
  ELSE {[shape |-> size, data |-> v] : v \in 1..MaxPayload}

\* a local that no statement has assigned yet
Unbound == [shape |-> -1, data |-> 0]

\* a float that is a whole number of half ticks
Float(h) == [nan |-> FALSE, half |-> h]

\* the float nan
NaN == [nan |-> TRUE, half |-> 0]

\* a median taken without sorting the samples first
MedianUnsorted(r) ==
  LET n == RLen(r)
  IN  IF n = 0 THEN NaN
      ELSE IF n % 2 = 1 THEN Float(2 * RAt(r, (n + 1) \div 2))
      ELSE Float(RAt(r, n \div 2) + RAt(r, n \div 2 + 1))

\* np.median(times), in half ticks: the middle element of the sorted samples,
\* or the mean of the two middle ones; nan for no samples
Median(r) ==
  LET n == RLen(r)
  IN  IF n = 0 THEN NaN
      ELSE IF n % 2 = 1 THEN Float(2 * KthSmallest(r, (n + 1) \div 2))
      ELSE Float(KthSmallest(r, n \div 2) + KthSmallest(r, n \div 2 + 1))

\* num/den rounded to the nearest integer, ties to even (num >= 0)
RoundHalfEven(num, den) ==
  LET q == num \div den
      r == num % den
  IN  IF 2 * r < den THEN q
      ELSE IF 2 * r > den THEN q + 1
      ELSE IF q % 2 = 0 THEN q ELSE q + 1

\* "%f" % x: "nan" for nan; else the sign, "-" when x is negative, the
\* digits of the whole seconds of the magnitude before the point and the six
\* decimals of the magnitude, rounded, after it
FormatF(x) ==
  IF x.nan THEN [nan |-> TRUE, sign |-> "", whole |-> 0, frac |-> 0]
  ELSE LET m == IF x.half < 0 THEN 0 - x.half ELSE x.half
       IN  [nan   |-> FALSE,
            sign  |-> IF x.half < 0 THEN "-" ELSE "",
            whole |-> m \div (2 * TicksPerSecond),
            frac  |-> RoundHalfEven((m % (2 * TicksPerSecond)) * 1000000,
                                    2 * TicksPerSecond)]

\* "%d" % size
FormatD(n) == n

\* "%s %d %f" % (name, size, np.median(times))
PrintLine(name, size, median) == <<name, FormatD(size), FormatF(median)>>

\* report_benchmark(iters=iters, wall_time=np.median(times), name=name)
ReportRecord(name, iters, median) ==
  [name |-> name, iters |-> iters, wall_time |-> median]

\* times = []
EmptyTimes == <<>>

\* tf.Session(target).__enter__
SessionEnter(ss, target) == Append(ss, [target |-> target, open |-> TRUE])

\* a session that is never released
SessionLeak(ss) == ss

\* tf.Session.__exit__: the with block releases its session however it ends
SessionExit(ss) == [ss EXCEPT ![Len(ss)].open = FALSE]

\* the feed_dict of the call's sess.run
FeedDict(kind, payload) ==
  IF kind = "feed" THEN << <<"p", payload>> >> ELSE <<>>

\* what the warm-up and the timed runs fetch
Fetched(kind) == IF kind = "feed" THEN "no_op" ELSE "v"

\* the latencies the execution service may show on its next execution
Latencies == IF suite = "none" THEN Deltas ELSE SuiteDeltas

\* the log after the end timestamp of an iteration: the iteration's start
\* timestamp, execution and end timestamp become one counted entry, joined
\* to the entry of the iterations before when the execution was the same
FoldIteration(l) ==
  LET n == Len(l)
      run == l[n]
  IN  IF n >= 3 /\ l[n - 2][1] = "loop" /\ l[n - 2][3] = run
      THEN [SubSeq(l, 1, n - 2) EXCEPT ![n - 2] = <<"loop", @[2] + 1, run>>]
      ELSE Append(SubSeq(l, 1, n - 2), <<"loop", 1, run>>)

RECURSIVE LogExpand(_)
\* the plain log
LogExpand(l) ==
  IF l = <<>> THEN <<>>
  ELSE IF l[1][1] # "loop" THEN <<l[1]>> \o LogExpand(Tail(l))
  ELSE IF l[1][2] = 0 THEN LogExpand(Tail(l))
  ELSE << <<"time", "start">>, l[1][3], <<"time", "end">> >>
         \o LogExpand(<< <<"loop", l[1][2] - 1, l[1][3]>> >> \o Tail(l))

----------------------------------------------------------------------------
(* The measurement call, one action per statement *)

ArgSet(kinds) ==
  [kind : kinds, name : Names, target : Targets, size : Sizes, iters : Iters]

\* the state in which a measurement method is entered
CallInit(argset) ==
  /\ python \in Pythons
  /\ args \in argset
  /\ pc = "entry"
  /\ feed_val = Unbound
  /\ times = <<>>
  /\ i = 0
  /\ start_time = 0
  /\ end_time = 0
  /\ now = 0
  /\ sessions = <<>>
  /\ log = <<>>
  /\ stdout = <<>>
  /\ reported = <<>>
  /\ ncall = 1
  /\ svc = <<>>
  /\ prevSvc = <<>>
  /\ suite = "none"
  /\ spc = 0
  /\ server = ""

\* feed_val = np.random.rand(size).astype(np.float32); times = []
FeedInit ==
  /\ pc = "entry" /\ args.kind = "feed"
  /\ \E p \in RandomPayloads(args.size) :
       /\ feed_val' = p
       /\ log' = Append(log, <<"rand", p>>)
  /\ times' = EmptyTimes
  /\ pc' = "graph"
  /\ UNCHANGED <<python, args, i, start_time, end_time, now, sessions,
                 stdout, reported, ncall, svc, prevSvc, suite, spc, server>>

\* times = []
FetchInit ==
  /\ pc = "entry" /\ args.kind = "fetch"
  /\ times' = EmptyTimes
  /\ pc' = "graph"
  /\ UNCHANGED <<python, args, feed_val, i, start_time, end_time, now,
                 sessions, log, stdout, reported, ncall, svc, prevSvc, suite,
                 spc, server>>

\* with tf.Graph().as_default(): the placeholder and the identity op, or
\* the variable
BuildGraph ==
  /\ pc = "graph"
  /\ log' = Append(log, <<"graph", args.kind, args.size>>)
  /\ pc' = "open"
  /\ UNCHANGED <<python, args, feed_val, times, i, start_time, end_time, now,
                 sessions, stdout, reported, ncall, svc, prevSvc, suite, spc,
                 server>>

\* graph construction raises: nothing is open yet
BuildGraphFails ==
  /\ pc = "graph"
  /\ pc' = "raised"
  /\ UNCHANGED <<python, args, feed_val, times, i, start_time, end_time, now,
                 sessions, log, stdout, reported, ncall, svc, prevSvc, suite,
                 spc, server>>

\* the session is opened and the initializer is never run
OpenSessionSkipsInitializer ==
  /\ pc = "open"
  /\ sessions' = SessionEnter(sessions, args.target)
  /\ log' = Append(log, <<"open", args.target>>)
  /\ pc' = "warmup"
  /\ UNCHANGED <<python, args, feed_val, times, i, start_time, end_time, now,
                 stdout, reported, ncall, svc, prevSvc, suite, spc, server>>

\* with tf.Session(target) as sess:
OpenSession ==
  /\ pc = "open"
  /\ sessions' = SessionEnter(sessions, args.target)
  /\ log' = Append(log, <<"open", args.target>>)
  /\ pc' = IF args.kind = "fetch" THEN "init" ELSE "warmup"
  /\ UNCHANGED <<python, args, feed_val, times, i, start_time, end_time, now,
                 stdout, reported, ncall, svc, prevSvc, suite, spc, server>>

\* tf.Session(target) raises: no session was acquired
OpenSessionFails ==
  /\ pc = "open"
  /\ pc' = "raised"
  /\ UNCHANGED <<python, args, feed_val, times, i, start_time, end_time, now,
                 sessions, log, stdout, reported, ncall, svc, prevSvc, suite,
                 spc, server>>

\* sess.run(v.initializer)
RunInitializer ==
  /\ pc = "init"
  /\ \E d \in Latencies :
       /\ now' = now + d
       /\ svc' = RAppend(svc, d)
  /\ log' = Append(log, <<"run", "v.initializer", <<>>>>)
  /\ pc' = "warmup"
  /\ UNCHANGED <<python, args, feed_val, times, i, start_time, end_time,
                 sessions, stdout, reported, ncall, prevSvc, suite, spc,
                 server>>

\* sess.run(...)  # Warm-up run.
WarmUp ==
  /\ pc = "warmup"
  /\ \E d \in Latencies :
       /\ now' = now + d
       /\ svc' = RAppend(svc, d)
  /\ log' = Append(log, <<"run", Fetched(args.kind),
                          FeedDict(args.kind, feed_val)>>)
  /\ pc' = "loop"
  /\ UNCHANGED <<python, args, feed_val, times, i, start_time, end_time,
                 sessions, stdout, reported, ncall, prevSvc, suite, spc,
                 server>>

\* a loop that runs once too often
LoopTestOffByOne ==
  /\ pc = "loop" /\ python = 2
  /\ pc' = IF i <= args.iters THEN "start" ELSE "exit"
  /\ UNCHANGED <<python, args, feed_val, times, i, start_time, end_time, now,
                 sessions, log, stdout, reported, ncall, svc, prevSvc, suite,
                 spc, server>>

\* for _ in xrange(iters): where xrange is a builtin
LoopTest ==
  /\ pc = "loop" /\ python = 2
  /\ pc' = IF i < args.iters THEN "start" ELSE "exit"
  /\ UNCHANGED <<python, args, feed_val, times, i, start_time, end_time, now,
                 sessions, log, stdout, reported, ncall, svc, prevSvc, suite,
                 spc, server>>

\* for _ in xrange(iters): where no xrange is defined (the file imports
\* none): NameError; the with block releases the session and the exception
\* leaves the method
LoopNameError ==
  /\ pc = "loop" /\ python = 3
  /\ sessions' = SessionExit(sessions)
  /\ log' = Append(log, <<"close", args.target>>)
  /\ pc' = "raised"
  /\ UNCHANGED <<python, args, feed_val, times, i, start_time, end_time, now,
                 stdout, reported, ncall, svc, prevSvc, suite, spc, server>>

\* start_time = time.time()
StartTime ==
  /\ pc = "start"
  /\ start_time' = now
  /\ log' = Append(log, <<"time", "start">>)
  /\ pc' = "run"
  /\ UNCHANGED <<python, args, feed_val, times, i, end_time, now, sessions,
                 stdout, reported, ncall, svc, prevSvc, suite, spc, server>>

\* a timed run that is fed a payload drawn anew
TimedRunFreshPayload ==
  /\ pc = "run"
  /\ \E d \in Latencies :
       /\ now' = now + d
       /\ svc' = RAppend(svc, d)
  /\ \E p \in RandomPayloads(args.size) :
       /\ feed_val' = IF args.kind = "feed" THEN p ELSE feed_val
       /\ log' = Append(log, <<"run", Fetched(args.kind),
                               FeedDict(args.kind, p)>>)
  /\ pc' = "end"
  /\ UNCHANGED <<python, args, times, i, start_time, end_time, sessions,
                 stdout, reported, ncall, prevSvc, suite, spc, server>>

\* sess.run(...) inside the loop
TimedRun ==
  /\ pc = "run"
  /\ \E d \in Latencies :
       /\ now' = now + d
       /\ svc' = RAppend(svc, d)
  /\ log' = Append(log, <<"run", Fetched(args.kind),
                          FeedDict(args.kind, feed_val)>>)
  /\ pc' = "end"
  /\ UNCHANGED <<python, args, feed_val, times, i, start_time, end_time,
                 sessions, stdout, reported, ncall, prevSvc, suite, spc,
                 server>>

\* the end timestamp is appended instead of the elapsed time
EndTimeAbsolute ==
  /\ pc = "end"
  /\ end_time' = now
  /\ times' = RAppend(times, now)
  /\ log' = FoldIteration(log)
  /\ i' = i + 1
  /\ pc' = "loop"
  /\ UNCHANGED <<python, args, feed_val, start_time, now, sessions, stdout,
                 reported, ncall, svc, prevSvc, suite, spc, server>>

\* end_time = time.time(); times.append(end_time - start_time)
EndTime ==
  /\ pc = "end"
  /\ end_time' = now
  /\ times' = RAppend(times, now - start_time)
  /\ log' = FoldIteration(log)
  /\ i' = i + 1
  /\ pc' = "loop"
  /\ UNCHANGED <<python, args, feed_val, start_time, now, sessions, stdout,
                 reported, ncall, svc, prevSvc, suite, spc, server>>

\* a failed execution is swallowed and the samples so far are reported
RunFailsSwallowed ==
  /\ pc \in {"init", "warmup", "run"}
  /\ sessions' = SessionExit(sessions)
  /\ log' = Append(log, <<"close", args.target>>)
  /\ pc' = IF times = <<>> THEN "raised" ELSE "print"
  /\ UNCHANGED <<python, args, feed_val, times, i, start_time, end_time, now,
                 stdout, reported, ncall, svc, prevSvc, suite, spc, server>>

\* a sess.run raises (the initializer, the warm-up or a timed run): the with
\* block releases the session and the exception leaves the method
RunFails ==
  /\ pc \in {"init", "warmup", "run"}
  /\ sessions' = SessionExit(sessions)
  /\ log' = Append(log, <<"close", args.target>>)
  /\ pc' = "raised"
  /\ UNCHANGED <<python, args, feed_val, times, i, start_time, end_time, now,
                 stdout, reported, ncall, svc, prevSvc, suite, spc, server>>

\* the end of the with tf.Session(target) block
CloseSession ==
  /\ pc = "exit"
  /\ sessions' = SessionExit(sessions)
  /\ log' = Append(log, <<"close", args.target>>)
  /\ pc' = "print"
  /\ UNCHANGED <<python, args, feed_val, times, i, start_time, end_time, now,
                 stdout, reported, ncall, svc, prevSvc, suite, spc, server>>

\* print("%s %d %f" % (name, size, np.median(times)))
PrintMedian ==
  /\ pc = "print"
  /\ stdout' = Append(stdout, PrintLine(args.name, args.size, Median(times)))
  /\ log' = Append(log, <<"print", args.name>>)
  /\ pc' = "report"
  /\ UNCHANGED <<python, args, feed_val, times, i, start_time, end_time, now,
                 sessions, reported, ncall, svc, prevSvc, suite, spc, server>>

\* self.report_benchmark(iters=iters, wall_time=np.median(times), name=name)
Report ==
  /\ pc = "report"
  /\ reported' = Append(reported,
                        ReportRecord(args.name, args.iters, Median(times)))
  /\ log' = Append(log, <<"report", args.name>>)
  /\ pc' = "done"
  /\ UNCHANGED <<python, args, feed_val, times, i, start_time, end_time, now,
                 sessions, stdout, ncall, svc, prevSvc, suite, spc, server>>

Init == CallInit(ArgSet({"feed", "fetch"}))

Next ==
  \/ FeedInit
  \/ FetchInit
  \/ BuildGraph
  \/ BuildGraphFails
  \/ OpenSession
  \/ OpenSessionFails
  \/ RunInitializer
  \/ WarmUp
  \/ LoopTest
  \/ LoopNameError
  \/ StartTime
  \/ TimedRun
  \/ EndTime
  \/ RunFails
  \/ CloseSession
  \/ PrintMedian
  \/ Report

Spec == Init /\ [][Next]_vars

----------------------------------------------------------------------------
(* The same measurement made twice *)

\* a caller invokes the method again with the arguments of the call that
\* has returned: a new frame, the same wall clock, the same sinks
CallAgain ==
  /\ pc = "done" /\ suite = "none" /\ ncall = 1
  /\ ncall' = ncall + 1
  /\ prevSvc' = svc
  /\ svc' = <<>>
  /\ pc' = "entry"
  /\ feed_val' = Unbound
  /\ times' = <<>>
  /\ i' = 0
  /\ start_time' = 0
  /\ end_time' = 0
  /\ UNCHANGED <<python, args, now, sessions, log, stdout, reported, suite,
                 spc, server>>

TwiceInit ==
  CallInit([kind : {"feed"}, name : {"t"}, target : {""}, size : {1},
            iters : 0..MaxTwiceIters])

TwiceNext ==
  \/ FeedInit
  \/ BuildGraph
  \/ BuildGraphFails
  \/ OpenSession
  \/ OpenSessionFails
  \/ WarmUp
  \/ LoopTest
  \/ LoopNameError
  \/ StartTime
  \/ TimedRun
  \/ EndTime
  \/ RunFails
  \/ CloseSession
  \/ PrintMedian
  \/ Report
  \/ CallAgain

TwiceSpec == TwiceInit /\ [][TwiceNext]_vars

----------------------------------------------------------------------------
(* The suites *)

\* 1 << n
ShiftLeft(a, n) == a * 2^n

\* benchmarkGrpcSession without the reset between its two feed cases
GrpcSuiteMissingReset == <<
  [op |-> "server"],
  [op |-> "feed", name |-> "benchmark_session_feed_grpc_4B",
   target |-> "server.target", size |-> 1, iters |-> 10000],
  [op |-> "feed", name |-> "benchmark_session_feed_grpc_4MB",
   target |-> "server.target", size |-> ShiftLeft(1, 20), iters |-> 100],
  [op |-> "reset"],
  [op |-> "fetch", name |-> "benchmark_session_fetch_grpc_4B",
   target |-> "server.target", size |-> 1, iters |-> 20000],
  [op |-> "reset"],
  [op |-> "fetch", name |-> "benchmark_session_fetch_grpc_4MB",
   target |-> "server.target", size |-> ShiftLeft(1, 20), iters |-> 100],
  [op |-> "reset"] >>

\* the statements of benchmarkGrpcSession
GrpcSuite == <<
  [op |-> "server"],
  [op |-> "feed", name |-> "benchmark_session_feed_grpc_4B",
   target |-> "server.target", size |-> 1, iters |-> 10000],
  [op |-> "reset"],
  [op |-> "feed", name |-> "benchmark_session_feed_grpc_4MB",
   target |-> "server.target", size |-> ShiftLeft(1, 20), iters |-> 100],
  [op |-> "reset"],
  [op |-> "fetch", name |-> "benchmark_session_fetch_grpc_4B",
   target |-> "server.target", size |-> 1, iters |-> 20000],
  [op |-> "reset"],
  [op |-> "fetch", name |-> "benchmark_session_fetch_grpc_4MB",
   target |-> "server.target", size |-> ShiftLeft(1, 20), iters |-> 100],
  [op |-> "reset"] >>

\* benchmarkDirectSession run against a local server
DirectSuiteOnServer == <<
  [op |-> "server"],
  [op |-> "feed", name |-> "benchmark_session_feed_direct_4B",
   target |-> "server.target", size |-> 1, iters |-> 5000],
  [op |-> "feed", name |-> "benchmark_session_feed_direct_4MB",
   target |-> "server.target", size |-> ShiftLeft(1, 20), iters |-> 200],
  [op |-> "fetch", name |-> "benchmark_session_fetch_direct_4B",
   target |-> "server.target", size |-> 1, iters |-> 5000],
  [op |-> "fetch", name |-> "benchmark_session_fetch_direct_4MB",
   target |-> "server.target", size |-> ShiftLeft(1, 20), iters |-> 100] >>

\* benchmarkDirectSession with its two 4MB cases at 2^10 elements
DirectSuiteSmallPayload == <<
  [op |-> "feed", name |-> "benchmark_session_feed_direct_4B",
   target |-> "", size |-> 1, iters |-> 5000],
  [op |-> "feed", name |-> "benchmark_session_feed_direct_4MB",
   target |-> "", size |-> ShiftLeft(1, 10), iters |-> 200],
  [op |-> "fetch", name |-> "benchmark_session_fetch_direct_4B",
   target |-> "", size |-> 1, iters |-> 5000],
  [op |-> "fetch", name |-> "benchmark_session_fetch_direct_4MB",
   target |-> "", size |-> ShiftLeft(1, 10), iters |-> 100] >>

\* the statements of benchmarkDirectSession
DirectSuite == <<
  [op |-> "feed", name |-> "benchmark_session_feed_direct_4B",
   target |-> "", size |-> 1, iters |-> 5000],
  [op |-> "feed", name |-> "benchmark_session_feed_direct_4MB",
   target |-> "", size |-> ShiftLeft(1, 20), iters |-> 200],
  [op |-> "fetch", name |-> "benchmark_session_fetch_direct_4B",
   target |-> "", size |-> 1, iters |-> 5000],
  [op |-> "fetch", name |-> "benchmark_session_fetch_direct_4MB",
   target |-> "", size |-> ShiftLeft(1, 20), iters |-> 100] >>

Program == IF suite = "grpc" THEN GrpcSuite ELSE DirectSuite

\* the target argument of a call statement, evaluated when the call is made
TargetOf(stmt) == IF stmt.target = "server.target" THEN server ELSE stmt.target

CallArgs(stmt) ==
  [kind |-> stmt.op, name |-> stmt.name, target |-> TargetOf(stmt),
   size |-> stmt.size, iters |-> stmt.iters]

NoCall == [kind |-> "none", name |-> "", target |-> "", size |-> 0, iters |-> 0]

SuiteInit ==
  /\ python \in Pythons
  /\ suite \in {"grpc", "direct"}
  /\ spc = 1
  /\ server = ""
  /\ args = NoCall
  /\ pc = "idle"
  /\ feed_val = Unbound
  /\ times = <<>>
  /\ i = 0
  /\ start_time = 0
  /\ end_time = 0
  /\ now = 0
  /\ sessions = <<>>
  /\ log = <<>>
  /\ stdout = <<>>
  /\ reported = <<>>
  /\ ncall = 0
  /\ svc = <<>>
  /\ prevSvc = <<>>

\* server = tf.train.Server.create_local_server()
StartServer ==
  /\ pc = "idle" /\ spc <= Len(Program) /\ Program[spc].op = "server"
  /\ \E t \in ServerTargets :
       /\ server' = t
       /\ log' = Append(log, <<"server", t>>)
  /\ spc' = spc + 1
  /\ UNCHANGED <<python, args, pc, feed_val, times, i, start_time, end_time,
                 now, sessions, stdout, reported, ncall, svc, prevSvc, suite>>

\* self._benchmarkFeed(...) or self._benchmarkFetch(...): the method is
\* entered with the statement's arguments, in a new frame
MeasureCall ==
  /\ pc = "idle" /\ spc <= Len(Program)
  /\ Program[spc].op \in {"feed", "fetch"}
  /\ args' = CallArgs(Program[spc])
  /\ ncall' = ncall + 1
  /\ prevSvc' = svc
  /\ svc' = <<>>
  /\ pc' = "entry"
  /\ feed_val' = Unbound
  /\ times' = <<>>
  /\ i' = 0
  /\ start_time' = 0
  /\ end_time' = 0
  /\ UNCHANGED <<python, now, sessions, log, stdout, reported, suite, spc,
                 server>>

\* the method returns and the suite goes on to its next statement
MeasureReturn ==
  /\ pc = "done" /\ suite # "none"
  /\ pc' = "idle"
  /\ spc' = spc + 1
  /\ UNCHANGED <<python, args, feed_val, times, i, start_time, end_time, now,
                 sessions, log, stdout, reported, ncall, svc, prevSvc, suite,
                 server>>

\* tf.Session.reset(server.target)
ResetServer ==
  /\ pc = "idle" /\ spc <= Len(Program) /\ Program[spc].op = "reset"
  /\ log' = Append(log, <<"reset", server>>)
  /\ spc' = spc + 1
  /\ UNCHANGED <<python, args, pc, feed_val, times, i, start_time, end_time,
                 now, sessions, stdout, reported, ncall, svc, prevSvc, suite,
                 server>>

SuiteNext ==
  \/ StartServer
  \/ MeasureCall
  \/ MeasureReturn
  \/ ResetServer
  \/ FeedInit
  \/ FetchInit
  \/ BuildGraph
  \/ BuildGraphFails
  \/ OpenSession
  \/ OpenSessionFails
  \/ RunInitializer
  \/ WarmUp
  \/ LoopTest
  \/ LoopNameError
  \/ StartTime
  \/ TimedRun
  \/ EndTime
  \/ RunFails
  \/ CloseSession
  \/ PrintMedian
  \/ Report

SuiteSpec == SuiteInit /\ [][SuiteNext]_vars

\* the suite method has returned
SuiteDone == suite # "none" /\ pc = "idle" /\ spc = Len(Program) + 1

----------------------------------------------------------------------------
(* Reading the state *)

\* the calls made on the framework, one entry a call
Calls == LogExpand(log)

\* the samples and the latencies as plain lists
Samples == Expand(times)
Shown == Expand(svc)

\* what kind of call an entry of the log records
Tag(e) ==
  IF e[1] = "run" THEN (IF e[2] = "v.initializer" THEN "init" ELSE "run")
  ELSE IF e[1] = "time" THEN e[2]
  ELSE e[1]

Kinds(l) == [k \in 1..Len(l) |-> Tag(l[k])]

IsPrefix(s, t) == Len(s) <= Len(t) /\ \A k \in 1..Len(s) : s[k] = t[k]

RECURSIVE Repeat(_, _)
Repeat(s, n) == IF n = 0 THEN <<>> ELSE s \o Repeat(s, n - 1)

CountOf(l, tag) == Cardinality({k \in 1..Len(l) : Tag(l[k]) = tag})

\* a log without the release of the session that an exception forces
BeforeUnwind(l) ==
  IF pc = "raised" /\ Len(l) > 0 /\ Tag(l[Len(l)]) = "close"
  THEN SubSeq(l, 1, Len(l) - 1) ELSE l

OpenSessions == {k \in 1..Len(sessions) : sessions[k].open}

RECURSIVE Insert(_, _)
Insert(x, s) ==
  IF s = <<>> THEN <<x>>
  ELSE IF x <= Head(s) THEN <<x>> \o s
  ELSE <<Head(s)>> \o Insert(x, Tail(s))

RECURSIVE Sorted(_)
Sorted(s) == IF s = <<>> THEN <<>> ELSE Insert(Head(s), Sorted(Tail(s)))

----------------------------------------------------------------------------
(* C1 *)

FeedCallOrder(n) ==
  <<"rand", "graph", "open", "run">> \o Repeat(<<"start", "run", "end">>, n)
    \o <<"close", "print", "report">>

\* C1: a successful _benchmarkFeed executes the identity op iters + 1 times:
\* one warm-up before the first start timestamp, then iters executions each
\* between its own start and end timestamp; the samples are exactly the
\* latencies of the iters timed executions and hold nothing of the warm-up.
C1_FeedRunsWarmupPlusIters ==
  (args.kind = "feed" /\ pc # "raised") =>
    /\ IsPrefix(Kinds(Calls), FeedCallOrder(args.iters))
    /\ Len(Samples) = i
    /\ i <= args.iters
    /\ \A k \in 1..Len(Samples) : Samples[k] = Shown[k + 1]
    /\ pc = "done" =>
         /\ Kinds(Calls) = FeedCallOrder(args.iters)
         /\ CountOf(Calls, "run") = args.iters + 1
         /\ Len(Samples) = args.iters
         /\ Len(Shown) = args.iters + 1

C1_Witness ==
  /\ args.kind = "feed" /\ pc = "done" /\ args.iters = MaxIters
  /\ args.size >= 1
  /\ Len(Samples) = MaxIters
  /\ Shown[1] # Samples[1]

----------------------------------------------------------------------------
(* C2 *)

FetchCallOrder(n) ==
  <<"graph", "open", "init", "run">> \o Repeat(<<"start", "run", "end">>, n)
    \o <<"close", "print", "report">>

\* C2: in every execution of _benchmarkFetch the initializer run comes first,
\* then one untimed warm-up fetch, and only then the first start timestamp;
\* no sample is recorded before both, and the initializer runs once per call,
\* never inside the timed loop.
C2_FetchInitThenWarmupThenTimed ==
  args.kind = "fetch" =>
    /\ IsPrefix(Kinds(BeforeUnwind(Calls)), FetchCallOrder(args.iters))
    /\ CountOf(Calls, "init") <= 1
    /\ (CountOf(Calls, "start") > 0 \/ Len(Samples) > 0) =>
         /\ CountOf(Calls, "init") = 1
         /\ Len(Shown) >= 2
    /\ \A k \in 1..Len(Samples) : Samples[k] = Shown[k + 2]
    /\ pc = "done" => CountOf(Calls, "init") = 1

C2_Witness ==
  /\ args.kind = "fetch" /\ pc = "done" /\ args.iters >= 2
  /\ Shown[1] > Samples[1] /\ Shown[2] > Samples[1]

----------------------------------------------------------------------------
(* C4 *)

\* C4: a measurement call opens exactly one session and has released it by
\* the time the call ends, normally or by an exception of a session
\* execution; at most one session of the harness is open at any moment and
\* none is open outside the with block.
C4_OneSessionAlwaysReleased ==
  /\ Cardinality(OpenSessions) <= 1
  /\ Len(sessions) <= ncall
  /\ pc \in {"entry", "graph", "open", "print", "report", "done", "raised"}
       => OpenSessions = {}
  /\ pc \in {"init", "warmup", "loop", "start", "run", "end", "exit"}
       => OpenSessions = {Len(sessions)}
  /\ pc \in {"print", "report", "done"} => Len(sessions) = ncall
  /\ \A k \in 1..Len(sessions) : sessions[k].target = args.target

C4_Witness ==
  /\ pc = "raised" /\ Len(sessions) = 1 /\ ~sessions[1].open
  /\ Len(Samples) >= 1 /\ CountOf(Calls, "close") = 1

----------------------------------------------------------------------------
(* C5 *)

\* C5: a measurement case is all or nothing.  A failure of graph
\* construction, session open, the initializer, the warm-up or a timed run
\* leaves the method with nothing printed and nothing reported, and nothing
\* is run again; a call that succeeds prints one line and reports once,
\* after the last timed iteration.
C5_AllOrNothing ==
  /\ pc = "raised" => stdout = <<>> /\ reported = <<>>
  /\ pc \notin {"report", "done"} => reported = <<>>
  /\ pc \notin {"print", "report", "done"} => stdout = <<>>
  /\ pc \in {"report", "done"} => Len(stdout) = 1
  /\ pc = "done" =>
       /\ Len(reported) = 1
       /\ i = args.iters
       /\ Tag(Calls[Len(Calls)]) = "report"
       /\ CountOf(Calls, "report") = 1 /\ CountOf(Calls, "print") = 1
  /\ CountOf(Calls, "open") <= 1
  /\ CountOf(Calls, "graph") <= 1
  /\ CountOf(Calls, "run") <= args.iters + 1
  /\ CountOf(Calls, "init") <= 1

C5_Witness ==
  /\ pc = "raised" /\ Len(Samples) = args.iters - 1 /\ args.iters >= 2
  /\ CountOf(Calls, "start") = args.iters

----------------------------------------------------------------------------
(* C6 *)

\* the deltas of the timed executions, as the service showed them
TimedDeltas ==
  LET skip == IF args.kind = "fetch" THEN 2 ELSE 1
  IN  [k \in 1..(Len(Shown) - skip) |-> Shown[k + skip]]

\* the median of s in half ticks: the middle sample of the sorted samples,
\* or the mean of the two middle samples
MedianOf(s) ==
  LET n == Len(s)
      t == Sorted(s)
  IN  IF n % 2 = 1 THEN 2 * t[(n + 1) \div 2]
      ELSE t[n \div 2] + t[n \div 2 + 1]

ReportedAsRequested ==
  /\ Len(reported) = 1
  /\ reported[1].name = args.name
  /\ reported[1].iters = args.iters
  /\ Len(TimedDeltas) = args.iters
  /\ reported[1].wall_time = [nan |-> FALSE, half |-> MedianOf(TimedDeltas)]
  /\ Len(stdout) = 1
  /\ stdout[1][1] = args.name
  /\ stdout[1][2] = args.size

\* the number printed, in units of 1/(2 * TicksPerSecond) microseconds
PrintedMedian ==
  LET p == stdout[1][3]
  IN  (IF p.sign = "-" THEN 0 - 1 ELSE 1)
        * (p.whole * 1000000 + p.frac) * 2 * TicksPerSecond

\* C6 as stated: the record has the requested name and iteration count and
\* the median of the timed deltas, and the stdout line carries the same
\* median.
C6_Original_StdoutSameMedian ==
  (pc = "done" /\ args.iters >= 1) =>
    /\ ReportedAsRequested
    /\ ~stdout[1][3].nan
    /\ PrintedMedian = reported[1].wall_time.half * 1000000

\* C6 amended: the record has the requested name and iteration count and the
\* median of the timed deltas; the stdout line carries that median rounded
\* to six decimal places (to the nearest microsecond, a tie to the even one).
C6_ReportMedian_StdoutRounded ==
  (pc = "done" /\ args.iters >= 1) =>
    /\ ReportedAsRequested
    /\ ~stdout[1][3].nan
    /\ (stdout[1][3].sign = "-") = (reported[1].wall_time.half < 0)
    /\ LET exact == reported[1].wall_time.half * 1000000
           err   == IF PrintedMedian >= exact THEN PrintedMedian - exact
                    ELSE exact - PrintedMedian
       IN  /\ err <= TicksPerSecond
           /\ err = TicksPerSecond => stdout[1][3].frac % 2 = 0

\* deltas 1, 0, 1 ticks over three iterations: the median is 1 tick, 1/128 s
\* or 0.0078125, printed as 0.007812
C6_Witness ==
  /\ pc = "done" /\ args.iters = 3 /\ Samples = <<1, 0, 1>>
  /\ reported[1].wall_time = [nan |-> FALSE, half |-> 2]
  /\ reported[1].iters = 3
  /\ stdout[1][3] = [nan |-> FALSE, sign |-> "", whole |-> 0, frac |-> 7812]

----------------------------------------------------------------------------
(* C10 *)

RunEntries == {k \in 1..Len(Calls) : Calls[k][1] = "run"}

\* C10: _benchmarkFeed generates its payload once, before the session is
\* opened, and never reassigns it: the warm-up and every timed execution are
\* fed that same payload on the placeholder, and nothing is generated
\* between a start timestamp and its end timestamp.
C10_PayloadGeneratedOnceAndReused ==
  (args.kind = "feed" /\ pc # "entry") =>
    /\ CountOf(Calls, "rand") = 1
    /\ Calls[1][1] = "rand"
    /\ feed_val = Calls[1][2]
    /\ feed_val \in RandomPayloads(args.size)
    /\ \A k \in RunEntries :
         /\ Calls[k][2] = "no_op"
         /\ Calls[k][3] = << <<"p", Calls[1][2]>> >>

C10_Witness ==
  /\ args.kind = "feed" /\ pc = "done" /\ args.iters >= 2
  /\ Cardinality(RunEntries) = args.iters + 1
  /\ feed_val.data = MaxPayload

----------------------------------------------------------------------------
(* C9 *)

RandEntries == {k \in 1..Len(Calls) : Calls[k][1] = "rand"}

\* C9: _benchmarkFeed run twice with the same arguments (iters >= 1),
\* against a clock and a service that show the same latencies both times,
\* reports two identical records and prints two identical lines, whatever
\* payloads were drawn and whatever the first call left behind.
C9_SameArgsSameDeltasSameResult ==
  (ncall = 2 /\ pc = "done" /\ svc = prevSvc /\ args.iters >= 1) =>
    /\ Len(reported) = 2 /\ reported[1] = reported[2]
    /\ Len(stdout) = 2 /\ stdout[1] = stdout[2]

C9_Witness ==
  /\ ncall = 2 /\ pc = "done" /\ args.iters >= 2
  /\ svc = prevSvc
  /\ \E j, k \in RandEntries : Calls[j][2] # Calls[k][2]
  /\ Samples[1] # Samples[2]

----------------------------------------------------------------------------
(* C3 *)

OpenEntries == {k \in 1..Len(log) : log[k][1] = "open"}

IsServiceCall(e) == e[1] \notin {"rand", "graph"}

\* C3: in benchmarkGrpcSession the server target is reset after each case
\* has closed its session and reported and before the next case opens its
\* session: when all four cases succeed the calls are server start, then
\* case, reset, case, reset, case, reset, case, reset, every session and
\* every reset on the one server target.
C3_ResetAfterEachGrpcCase ==
  suite = "grpc" =>
    /\ \A j, k \in OpenEntries :
         j < k =>
           /\ log[j][2] = log[k][2]
           /\ \E r \in (j + 1)..(k - 1) :
                /\ log[r][1] = "reset" /\ log[r][2] = log[k][2]
                /\ \E q \in (j + 1)..(r - 1) :
                     /\ log[q][1] = "report"
                     /\ \E c \in (j + 1)..(q - 1) : log[c][1] = "close"
    /\ \A k \in 1..Len(log) :
         log[k][1] \in {"open", "reset"} =>
           log[k][2] = server /\ server \in ServerTargets
    /\ SuiteDone =>
         /\ Kinds(SelectSeq(log, IsServiceCall)) =
              <<"server">>
              \o Repeat(<<"open", "run", "loop", "close", "print", "report",
                          "reset">>, 2)
              \o Repeat(<<"open", "init", "run", "loop", "close", "print",
                          "report", "reset">>, 2)
         /\ [k \in 1..Len(reported) |-> reported[k].name] =
              <<"benchmark_session_feed_grpc_4B",
                "benchmark_session_feed_grpc_4MB",
                "benchmark_session_fetch_grpc_4B",
                "benchmark_session_fetch_grpc_4MB">>

C3_Witness ==
  /\ suite = "grpc" /\ SuiteDone
  /\ Cardinality(OpenEntries) = 4 /\ CountOf(log, "reset") = 4
  /\ server = "grpc://localhost:2"

----------------------------------------------------------------------------
(* C7 *)

\* the calls that reach out of the process: a server start, a reset, a
\* session on a target that is not the empty one
NetworkCalls ==
  {k \in 1..Len(log) :
     \/ log[k][1] \in {"server", "reset"}
     \/ log[k][1] = "open" /\ log[k][2] # ""}

\* C7: a session is opened with exactly the target given to the measurement
\* call.  benchmarkDirectSession opens its four sessions with the empty
\* target, starts no server, reaches no network and never resets; a server
\* is started and resets are made in benchmarkGrpcSession only.
C7_TargetAloneSelectsBackend ==
  /\ \A k \in 1..Len(sessions) :
       /\ sessions[k].target = args.target
       /\ sessions[k].target = (IF suite = "grpc" THEN server ELSE "")
  /\ \A k \in OpenEntries : log[k][2] = args.target
  /\ suite = "direct" =>
       /\ server = ""
       /\ CountOf(log, "server") = 0
       /\ CountOf(log, "reset") = 0
       /\ NetworkCalls = {}
       /\ SuiteDone => Len(sessions) = 4 /\ Cardinality(OpenEntries) = 4
  /\ suite = "grpc" =>
       /\ (Len(log) > 0 => log[1][1] = "server" /\ server \in ServerTargets)
       /\ CountOf(log, "server") <= 1
       /\ SuiteDone => CountOf(log, "reset") = 4 /\ CountOf(log, "server") = 1

C7_Witness ==
  /\ suite = "direct" /\ SuiteDone
  /\ Len(sessions) = 4 /\ \A k \in 1..4 : sessions[k].target = ""
  /\ Len(reported) = 4

----------------------------------------------------------------------------
(* C8 *)

IsGraph(e) == e[1] = "graph"

IsLoop(e) == e[1] = "loop"

IsCaseCall(e) == e[1] \notin {"server", "reset"}

\* the cases a suite has completed: what was measured, at what size, over
\* how many timed executions, and the iterations reported
Cases ==
  LET g == SelectSeq(log, IsGraph)
      l == SelectSeq(log, IsLoop)
  IN  [k \in 1..Len(reported) |->
         <<g[k][2], g[k][3], l[k][2], reported[k].iters>>]

\* the calls of the four cases with targets, names, iteration counts and
\* resets left out
CaseCallOrder ==
  Repeat(<<"rand", "graph", "open", "run", "loop", "close", "print",
           "report">>, 2)
    \o Repeat(<<"graph", "open", "init", "run", "loop", "close", "print",
                "report">>, 2)

\* C8 as stated: both suites run feed at 1, feed at 2^20, fetch at 1 and
\* fetch at 2^20 elements over 10000, 100, 20000 and 100 iterations.
C8_Original_SameIterationCounts ==
  SuiteDone =>
    /\ Cases = << <<"feed", 1, 10000, 10000>>, <<"feed", 2^20, 100, 100>>,
                  <<"fetch", 1, 20000, 20000>>, <<"fetch", 2^20, 100, 100>> >>
    /\ Kinds(SelectSeq(log, IsCaseCall)) = CaseCallOrder

\* C8 amended: both suites run, in this order, feed at 1, feed at 2^20, fetch
\* at 1 and fetch at 2^20 elements; the remote suite over 10000, 100, 20000
\* and 100 iterations, the local suite over 5000, 200, 5000 and 100; the
\* suites differ only in target, case names, iteration counts and resets.
C8_SameCasesOwnIterationCounts ==
  SuiteDone =>
    /\ [k \in 1..Len(Cases) |-> <<Cases[k][1], Cases[k][2]>>] =
         << <<"feed", 1>>, <<"feed", 1048576>>,
            <<"fetch", 1>>, <<"fetch", 1048576>> >>
    /\ [k \in 1..Len(Cases) |-> Cases[k][3]] =
         (IF suite = "grpc" THEN <<10000, 100, 20000, 100>>
          ELSE <<5000, 200, 5000, 100>>)
    /\ \A k \in 1..Len(Cases) : Cases[k][4] = Cases[k][3]
    /\ [k \in 1..Len(stdout) |-> stdout[k][2]] = <<1, 1048576, 1, 1048576>>
    /\ Kinds(SelectSeq(log, IsCaseCall)) = CaseCallOrder

C8_Witness ==
  /\ suite = "direct" /\ SuiteDone
  /\ Len(Cases) = 4 /\ Cases[2] = <<"feed", 1048576, 200, 200>>

====
